---- MODULE Spec2Model ----
(***************************************************************************)
(* Browser (src/browser_use/browser/browser.py): the manager of one        *)
(* Playwright browser handle, driven by asyncio tasks.  asyncio runs one   *)
(* task at a time and switches tasks only at an await that suspends, so    *)
(* every action below is one stretch of code between two suspension        *)
(* points: the call of a coroutine up to its first suspending await, or    *)
(* the return of an awaited engine call up to the next one.                *)
(***************************************************************************)
EXTENDS Integers, Sequences, FiniteSets, TLC

\* ------------------------------------------------------------------ bounds
\* Operations (get_playwright_browser or close) called in one behaviour.
MaxOps == 3

\* Messages in one session of http.py.
MaxMessages == 2

\* The tasks that call the manager; Init picks which of them are active.
Callers == {1, 2}

\* ------------------------------------------------------------- constants
\* for _ in range(10): the polls of the debug endpoint after the spawn.
PollAttempts == 10

\* self.playwright_browser = None / self.playwright = None.
None == 0

\* The attribute after `del self.playwright_browser` / `del self.playwright`:
\* reading it raises AttributeError until it is assigned again.
Deleted == -1

\* An optional string of BrowserConfig: None (unset) or a value (set).
OptStr == {"None", "set"}

\* Python truthiness of an optional string (`if self.config.cdp_url:`).
Truthy(s) == s \notin {"None", ""}

\* BrowserConfig as the caller writes it (lines 68-85): the selectors, the
\* keep-alive flag, the proxy fields and what goes on Chrome's command line.
RawConfigs(sel, proxyStr, flags, extra, keep) ==
    [cdp_url : sel, wss_url : sel, chrome_instance_path : sel,
     _force_keep_browser_alive : keep,
     proxy_server : proxyStr, proxy_username : proxyStr,
     proxy_password : proxyStr, proxy_bypass : proxyStr,
     ignore_https_errors : flags, proxy_ca_cert : proxyStr,
     user_data_dir : proxyStr, disable_security : {TRUE},
     extra_chromium_args : extra]

\* self.proxy = None (line 89): a key of ProxySettings that is not given is
\* "None" here as well.
NoProxy ==
    [server |-> "None", username |-> "None", password |-> "None",
     bypass |-> "None"]

\* BrowserConfig.__post_init__ (lines 87-102): the ProxySettings built from
\* the proxy fields, or None without a proxy server.  It raises nothing.
ProxySettings(cfg) ==
    IF Truthy(cfg.proxy_server)
    THEN [server |-> cfg.proxy_server,
          username |-> IF Truthy(cfg.proxy_username) /\ Truthy(cfg.proxy_password)
                       THEN cfg.proxy_username ELSE "None",
          password |-> IF Truthy(cfg.proxy_username) /\ Truthy(cfg.proxy_password)
                       THEN cfg.proxy_password ELSE "None",
          bypass |-> IF Truthy(cfg.proxy_bypass) THEN cfg.proxy_bypass ELSE "None"]
    ELSE NoProxy

\* The configuration object after construction: the fields and self.proxy.
PostInit(raw) == raw @@ [proxy |-> ProxySettings(raw)]

\* What requests.get('http://localhost:9222/json/version', timeout=2) does:
\* a 200 response, another status, requests.ConnectionError (refused, or a
\* connect timeout, which is a ConnectionError too), or an exception that is
\* not a ConnectionError (a read timeout after the connection was made).
ProbeOutcomes == {"200", "non200", "ConnectionError", "Timeout"}

VARIABLES
    config,              \* BrowserConfig: the selectors and _force_keep_browser_alive
    active,              \* the tasks that call the manager in this behaviour
    playwright_browser,  \* Browser.playwright_browser: None, Deleted or a handle
    playwright,          \* Browser.playwright: None, Deleted or a driver
    pc,                  \* pc[c]: the await task c is suspended on, or "idle"
    cur,                 \* cur[c]: the frame of the operation task c is in
    ret,                 \* what the last step returned to its caller, if it returned
    prev,                \* the operation that returned last, in short
    ops,                 \* operations called so far
    nHandles,            \* browser handles the engine has handed out
    nDrivers,            \* driver sessions async_playwright().start() has started
    closedH,             \* handles on which close() has been invoked
    stoppedD,            \* drivers on which stop() has been invoked
    finalized,           \* what Browser.__del__ did, once the manager is discarded
    http                 \* http.py: a session, its JSON document, the session read back

vars == <<config, active, playwright_browser, playwright, pc, cur, ret, prev, ops,
          nHandles, nDrivers, closedH, stoppedD, finalized, http>>

\* The state of the manager and its tasks.
browser == <<config, active, playwright_browser, playwright, pc, cur, ret, prev,
             ops, nHandles, nDrivers, closedH, stoppedD, finalized>>

engine == <<nHandles, nDrivers, closedH, stoppedD>>

\* ----------------------------------------------------------------- frames
\* An operation that returned, in short: which, by whom, and with what.
NoOp == [op |-> "none", task |-> 0, res |-> "", val |-> None]

\* The keyword arguments of a connect or launch call, as far as the proxy
\* goes: whether a proxy parameter is passed, and which.
NoCall == [kind |-> "none", hasProxy |-> FALSE, proxy |-> NoProxy]

\* The frame of an operation: its locals and what it has done so far; call is
\* its connect or launch call, cmd the command it spawned, args the argument
\* list it launched with.
NoFrame ==
    [op |-> "none", pre_browser |-> None, pre_playwright |-> None,
     lpw |-> None, strat |-> <<>>, starts |-> 0, probe0 |-> "", spawns |-> 0,
     polls |-> 0, ready |-> FALSE, connects |-> 0, conn |-> "",
     closeCalls |-> 0, stopCalls |-> 0, closeFailed |-> FALSE, caught |-> "",
     call |-> NoCall, cmd |-> <<>>, args |-> <<>>]

NewFrame(name) ==
    [NoFrame EXCEPT !.op = name,
                    !.pre_browser = playwright_browser,
                    !.pre_playwright = playwright]

\* A returned operation: its frame, its result, and the operation that had
\* returned last before it.
Entry(f, c, res, val, err, b) ==
    f @@ [task |-> c, res |-> res, val |-> val, err |-> err, before |-> b]

NoEntry == Entry(NoFrame, 0, "", None, "", NoOp)

\* Task c suspends on the await named label.
Suspend(c, f, label) ==
    /\ pc' = [pc EXCEPT ![c] = label]
    /\ cur' = [cur EXCEPT ![c] = f]
    /\ ret' = NoEntry
    /\ prev' = prev

\* Task c's operation returns (res = "handle" or "ok") or raises (res = "error").
Return(c, f, res, val, err) ==
    /\ pc' = [pc EXCEPT ![c] = "idle"]
    /\ cur' = [cur EXCEPT ![c] = NoFrame]
    /\ ret' = Entry(f, c, res, val, err, prev)
    /\ prev' = [op |-> f.op, task |-> c, res |-> res, val |-> val]

\* ------------------------------------------------------------------- Init
\* The manager is referenced: __del__ has not run.
NotFinalized ==
    [discarded |-> FALSE, held |-> FALSE, loop |-> FALSE, started |-> 0,
     pending |-> FALSE]

\* No session has been built, written or read.
NoHttp == [stage |-> "none", session |-> <<>>, doc |-> <<>>, restored |-> <<>>]

\* Browser.__init__ (lines 115-130): nothing acquired, nobody running.
Fresh ==
    /\ playwright_browser = None
    /\ playwright = None
    /\ pc = [c \in Callers |-> "idle"]
    /\ cur = [c \in Callers |-> NoFrame]
    /\ ret = NoEntry
    /\ prev = NoOp
    /\ ops = 0
    /\ nHandles = 0
    /\ nDrivers = 0
    /\ closedH = {}
    /\ stoppedD = {}
    /\ finalized = NotFinalized

\* Configurations without a proxy, used by one or two callers.
Init ==
    /\ config \in {PostInit(r) :
                     r \in RawConfigs(OptStr, {"None"}, {FALSE}, {<<>>}, BOOLEAN)}
    /\ active \in {{1}, Callers}
    /\ Fresh
    /\ http = NoHttp

\* ---------------------------------------------------------------- acquire
\* `if self.playwright_browser is None` (line 138).
NeedsInit_always(pb) == TRUE

NeedsInit(pb) == pb = None

\* _setup_browser's choice (lines 332-339): the first selector that is truthy.
SelectStrategy_wssFirst(cfg) ==
    IF Truthy(cfg.wss_url) THEN "wss"
    ELSE IF Truthy(cfg.cdp_url) THEN "cdp"
    ELSE IF Truthy(cfg.chrome_instance_path) THEN "instance"
    ELSE "standard"

SelectStrategy(cfg) ==
    IF Truthy(cfg.cdp_url) THEN "cdp"
    ELSE IF Truthy(cfg.wss_url) THEN "wss"
    ELSE IF Truthy(cfg.chrome_instance_path) THEN "instance"
    ELSE "standard"

\* `if response.status_code == 200` (lines 217, 248).
IsLive_never(p) == FALSE

IsLive(p) == p = "200"

\* `except requests.ConnectionError` (lines 224, 250): a response that is not
\* 200 raises nothing and falls through the same way.
FallsThrough(p) == p \in {"non200", "ConnectionError"}

\* `for _ in range(10)`: whether another iteration follows n polls.
LoopContinues_offByOne(n) == n < PollAttempts - 1

LoopContinues(n) == n < PollAttempts

\* The manager's fields when _init raises: lines 149-150 come after the
\* awaits of lines 146-147, so nothing has been stored.
FieldsOnFailure_driverStored(pb, pw, lpw) == <<pb, lpw>>

FieldsOnFailure(pb, pw, lpw) == <<pb, pw>>

\* An exception leaves _setup_browser (logged and re-raised, lines 340-342) and
\* _init (no handler): get_playwright_browser raises it to the caller.
Raise(c, f, err) ==
    /\ playwright_browser' = FieldsOnFailure(playwright_browser, playwright, f.lpw)[1]
    /\ playwright' = FieldsOnFailure(playwright_browser, playwright, f.lpw)[2]
    /\ Return(c, f, "error", None, err)

\* Task c suspends on an await of the acquisition; the fields are untouched.
Await(c, f, label) ==
    /\ UNCHANGED <<playwright_browser, playwright>>
    /\ Suspend(c, f, label)

\* The strategy returned browser h: _init stores the driver and the handle and
\* returns the handle (lines 149-152).
InitStore(c, f, h) ==
    /\ playwright' = f.lpw
    /\ playwright_browser' = h
    /\ Return(c, [f EXCEPT !.conn = "ok"], "handle", h, "")

\* `if self.config.proxy: connect_params["proxy"] = self.config.proxy` (lines
\* 166-168, 184-186, 262-264, 321-323): the parameter is passed only with a
\* proxy configured.
WithProxy(cfg, kind) ==
    [kind |-> kind, hasProxy |-> cfg.proxy # NoProxy, proxy |-> cfg.proxy]

\* connect_over_cdp(endpoint_url=..., timeout=20000) to the instance found
\* running (lines 219-222): no proxy parameter.
ReuseParams(cfg, kind) == [kind |-> kind, hasProxy |-> FALSE, proxy |-> NoProxy]

\* A connect call with the keyword arguments k.
Connect(f, k) == [f EXCEPT !.connects = f.connects + 1, !.call = k]

\* extra_args of _setup_browser_with_instance (lines 200-210).
ExtraArgs(cfg) ==
    (IF Truthy(cfg.proxy_server) THEN <<"--proxy-server">> ELSE <<>>)
    \o (IF Truthy(cfg.proxy_bypass) THEN <<"--proxy-bypass-list">> ELSE <<>>)
    \o (IF cfg.ignore_https_errors THEN <<"--ignore-certificate-errors">> ELSE <<>>)
    \o (IF Truthy(cfg.proxy_ca_cert) THEN <<"--ca-certificates-path">> ELSE <<>>)
    \o (IF Truthy(cfg.user_data_dir) THEN <<"--user-data-dir">> ELSE <<>>)

\* cmd_args of subprocess.Popen (lines 228-233).
CmdArgs(cfg) ==
    <<"chrome_instance_path", "--remote-debugging-port=9222">>
    \o ExtraArgs(cfg) \o cfg.extra_chromium_args

\* disable_security_args (lines 124-130).
DisableSecurityArgs(cfg) ==
    IF cfg.disable_security
    THEN <<"--disable-web-security", "--disable-site-isolation-trials",
           "--disable-features=IsolateOrigins,site-per-process">>
    ELSE <<>>

\* args of _setup_standard_browser (lines 277-311).
LaunchArgs(cfg) ==
    <<"--no-sandbox", "--disable-blink-features=AutomationControlled",
      "--disable-infobars", "--disable-background-timer-throttling",
      "--disable-popup-blocking", "--disable-backgrounding-occluded-windows",
      "--disable-renderer-backgrounding", "--disable-window-activation",
      "--disable-focus-on-load", "--no-first-run", "--no-default-browser-check",
      "--no-startup-window", "--window-position=0,0">>
    \o DisableSecurityArgs(cfg)
    \o (IF cfg.ignore_https_errors THEN <<"--ignore-certificate-errors">> ELSE <<>>)
    \o (IF Truthy(cfg.proxy_ca_cert) THEN <<"--ca-certificates-path">> ELSE <<>>)
    \o (IF Truthy(cfg.user_data_dir) THEN <<"--user-data-dir">> ELSE <<>>)
    \o cfg.extra_chromium_args

\* One iteration of the poll loop (lines 245-252): a probe, then the sleep;
\* a 200 leaves the loop and calls the final connect_over_cdp (line 266).
PollOnce(c, f) ==
    \E q \in ProbeOutcomes :
        LET g == [f EXCEPT !.polls = f.polls + 1] IN
        IF IsLive(q)
        THEN Await(c, Connect([g EXCEPT !.ready = TRUE],
                              WithProxy(config, "connect_over_cdp")),
                   "connect")
        ELSE IF FallsThrough(q)
        THEN Await(c, g, "sleep")
        ELSE Raise(c, g, q)

\* _setup_browser_with_instance up to its first await (lines 191-252): the
\* probe; a live instance is connected to, otherwise Chrome is spawned and
\* the poll loop entered.
SetupBrowserWithInstance(c, f) ==
    \E p \in ProbeOutcomes :
        LET g == [f EXCEPT !.probe0 = p] IN
        IF IsLive(p)
        THEN Await(c, Connect(g, ReuseParams(config, "connect_over_cdp")), "reuse")
        ELSE IF FallsThrough(p)
        THEN PollOnce(c, [g EXCEPT !.spawns = g.spawns + 1,
                                   !.cmd = CmdArgs(config)])
        ELSE Raise(c, g, p)

\* _setup_browser (lines 329-342): exactly one branch runs, up to its await.
SetupBrowser(c, f) ==
    LET s == SelectStrategy(config)
        g == [f EXCEPT !.strat = Append(f.strat, s)]
    IN
    IF s = "cdp"
    THEN Await(c, Connect(g, WithProxy(config, "connect_over_cdp")), "cdp")
    ELSE IF s = "wss"
    THEN Await(c, Connect(g, WithProxy(config, "connect")), "wss")
    ELSE IF s = "instance" THEN SetupBrowserWithInstance(c, g)
    ELSE Await(c, [g EXCEPT !.call = WithProxy(config, "launch"),
                            !.args = LaunchArgs(config)], "launch")

\* get_playwright_browser is called (lines 136-141); on the slow path _init
\* calls async_playwright().start() and suspends on it (line 146).
GetPlaywrightBrowser(c) ==
    /\ pc[c] = "idle"
    /\ ops < MaxOps
    /\ ops' = ops + 1
    /\ UNCHANGED <<config, active, engine>>
    /\ LET f == NewFrame("acquire") IN
       IF playwright_browser = Deleted
       THEN Raise(c, f, "AttributeError")
       ELSE IF NeedsInit(playwright_browser)
       THEN Await(c, [f EXCEPT !.starts = f.starts + 1], "start")
       ELSE /\ UNCHANGED <<playwright_browser, playwright>>
            /\ Return(c, f, "handle", playwright_browser, "")

\* async_playwright().start() returns (line 146) and _setup_browser runs up to
\* the strategy's first await (line 147).
StartReturns(c) ==
    /\ pc[c] = "start"
    /\ UNCHANGED <<config, active, ops>>
    /\ \E ok \in BOOLEAN :
        IF ok
        THEN /\ nDrivers' = nDrivers + 1
             /\ UNCHANGED <<nHandles, closedH, stoppedD>>
             /\ SetupBrowser(c, [cur[c] EXCEPT !.lpw = nDrivers + 1])
        ELSE /\ UNCHANGED engine
             /\ Raise(c, cur[c], "StartError")

\* An awaited connect or launch returns: a browser, which _init stores, or
\* the engine's error, which propagates (lines 170, 188, 219-223, 325).
EngineReturns(c, label) ==
    /\ pc[c] = label
    /\ UNCHANGED <<config, active, ops>>
    /\ \E ok \in BOOLEAN :
        IF ok
        THEN /\ nHandles' = nHandles + 1
             /\ UNCHANGED <<nDrivers, closedH, stoppedD>>
             /\ InitStore(c, cur[c], nHandles + 1)
        ELSE /\ UNCHANGED engine
             /\ Raise(c, [cur[c] EXCEPT !.conn = "fail"], "PlaywrightError")

\* connect_over_cdp of _setup_cdp returns (line 170).
CdpReturns(c) == EngineReturns(c, "cdp")

\* connect of _setup_wss returns (line 188).
WssReturns(c) == EngineReturns(c, "wss")

\* launch of _setup_standard_browser returns (line 325).
LaunchReturns(c) == EngineReturns(c, "launch")

\* connect_over_cdp to the instance found running returns (lines 219-223); a
\* Playwright error is no requests.ConnectionError, so line 224 lets it pass.
ReuseReturns(c) == EngineReturns(c, "reuse")

\* asyncio.sleep(1) returns (line 252): the next poll, or, after the last
\* one, the final connect_over_cdp is called (lines 255-266).
SleepReturns(c) ==
    /\ pc[c] = "sleep"
    /\ UNCHANGED <<config, active, ops, engine>>
    /\ IF LoopContinues(cur[c].polls)
       THEN PollOnce(c, cur[c])
       ELSE Await(c, Connect(cur[c], WithProxy(config, "connect_over_cdp")),
                  "connect")

\* The final connect_over_cdp returns (lines 266-272): any exception is
\* replaced by the RuntimeError that tells the operator what to do.
ConnectReturns(c) ==
    /\ pc[c] = "connect"
    /\ UNCHANGED <<config, active, ops>>
    /\ \E ok \in BOOLEAN :
        IF ok
        THEN /\ nHandles' = nHandles + 1
             /\ UNCHANGED <<nDrivers, closedH, stoppedD>>
             /\ InitStore(c, cur[c], nHandles + 1)
        ELSE /\ UNCHANGED engine
             /\ Raise(c, [cur[c] EXCEPT !.conn = "fail"], "RuntimeError")

\* ------------------------------------------------------------------ close
\* `if not self.config._force_keep_browser_alive` (line 347), negated.
SkipsTeardown_never(cfg) == FALSE

SkipsTeardown(cfg) == cfg._force_keep_browser_alive

\* The finally clause (lines 357-359), given the fields as the try left them.
FinallyFields_noReset(pb, pw) == <<pb, pw>>

FinallyFields(pb, pw) == <<None, None>>

\* close() leaves through its finally clause: whatever the try block did or
\* raised (`except Exception` logs it, lines 355-356), the fields are reset
\* and close() returns normally (lines 357-361).
Finally(c, f, pb, pw) ==
    /\ playwright_browser' = FinallyFields(pb, pw)[1]
    /\ playwright' = FinallyFields(pb, pw)[2]
    /\ Return(c, f, "ok", None, "")

\* `if self.playwright: await self.playwright.stop()` (lines 351-352), with pb
\* the handle field as the lines before left it.
StopPart(c, f, pb) ==
    IF playwright = Deleted
    THEN /\ stoppedD' = stoppedD
         /\ Finally(c, [f EXCEPT !.caught = "AttributeError"], pb, playwright)
    ELSE IF playwright # None
    THEN /\ stoppedD' = stoppedD \cup {playwright}
         /\ playwright_browser' = pb
         /\ playwright' = playwright
         /\ Suspend(c, [f EXCEPT !.stopCalls = f.stopCalls + 1], "stopping")
    ELSE /\ stoppedD' = stoppedD
         /\ Finally(c, f, pb, playwright)

\* close() is called (lines 344-349): with keep-alive the try block does
\* nothing; otherwise the handle's close() is called and awaited, or, with no
\* handle, the driver's stop().
Close(c) ==
    /\ pc[c] = "idle"
    /\ ops < MaxOps
    /\ ops' = ops + 1
    /\ UNCHANGED <<config, active, nHandles, nDrivers>>
    /\ LET f == NewFrame("close") IN
       IF SkipsTeardown(config)
       THEN /\ UNCHANGED <<closedH, stoppedD>>
            /\ Finally(c, f, playwright_browser, playwright)
       ELSE IF playwright_browser = Deleted
       THEN /\ UNCHANGED <<closedH, stoppedD>>
            /\ Finally(c, [f EXCEPT !.caught = "AttributeError"],
                       playwright_browser, playwright)
       ELSE IF playwright_browser # None
       THEN /\ closedH' = closedH \cup {playwright_browser}
            /\ UNCHANGED <<stoppedD, playwright_browser, playwright>>
            /\ Suspend(c, [f EXCEPT !.closeCalls = f.closeCalls + 1], "closing")
       ELSE /\ UNCHANGED closedH
            /\ StopPart(c, f, playwright_browser)

\* playwright_browser.close() returns (lines 349-352): `del` removes the
\* attribute (AttributeError when another close() removed it meanwhile), then
\* the driver is stopped; an error of close() skips to the handler.
CloseReturns(c) ==
    /\ pc[c] = "closing"
    /\ UNCHANGED <<config, active, ops, nHandles, nDrivers, closedH>>
    /\ \E ok \in BOOLEAN :
        IF ~ok
        THEN /\ UNCHANGED stoppedD
             /\ Finally(c, [cur[c] EXCEPT !.closeFailed = TRUE,
                                          !.caught = "PlaywrightError"],
                        playwright_browser, playwright)
        ELSE IF playwright_browser = Deleted
        THEN /\ UNCHANGED stoppedD
             /\ Finally(c, [cur[c] EXCEPT !.caught = "AttributeError"],
                        playwright_browser, playwright)
        ELSE StopPart(c, cur[c], Deleted)

\* playwright.stop() returns (lines 352-359): `del self.playwright`, or the
\* handler when stop() raised, and the finally clause.
StopReturns(c) ==
    /\ pc[c] = "stopping"
    /\ UNCHANGED <<config, active, ops, engine>>
    /\ \E ok \in BOOLEAN :
        IF ~ok
        THEN Finally(c, [cur[c] EXCEPT !.caught = "PlaywrightError"],
                     playwright_browser, playwright)
        ELSE IF playwright = Deleted
        THEN Finally(c, [cur[c] EXCEPT !.caught = "AttributeError"],
                     playwright_browser, playwright)
        ELSE Finally(c, cur[c], playwright_browser, Deleted)

\* ------------------------------------------------------------------- Next
\* Browser.__del__ (lines 363-373), run when the last reference to the manager
\* goes: no task is inside one of its methods.  With a handle or a driver
\* held, asyncio.get_running_loop() returns the loop, and close() is scheduled
\* on it as a task, or raises RuntimeError when no loop runs, which the
\* handler logs: the asyncio.run branch is never reached.
StartsClose(held, loopRunning) == held /\ loopRunning

Del(loopRunning) ==
    /\ ~finalized.discarded
    /\ \A c \in Callers : pc[c] = "idle"
    /\ LET held == playwright_browser # None \/ playwright # None IN
       finalized' =
           [discarded |-> TRUE, held |-> held, loop |-> loopRunning,
            started |-> IF StartsClose(held, loopRunning) THEN 1 ELSE 0,
            pending |-> StartsClose(held, loopRunning)]
    /\ ret' = NoEntry
    /\ UNCHANGED <<config, active, playwright_browser, playwright, pc, cur, prev,
                   ops, engine>>

\* A caller holds a reference to the manager.
Referenced == ~finalized.discarded

Acquire ==
    /\ Referenced
    /\ \E c \in active : GetPlaywrightBrowser(c)
    /\ UNCHANGED <<finalized, http>>

AwaitedStart ==
    /\ \E c \in active : StartReturns(c)
    /\ UNCHANGED <<finalized, http>>

AwaitedCdp ==
    /\ \E c \in active : CdpReturns(c)
    /\ UNCHANGED <<finalized, http>>

AwaitedWss ==
    /\ \E c \in active : WssReturns(c)
    /\ UNCHANGED <<finalized, http>>

AwaitedReuse ==
    /\ \E c \in active : ReuseReturns(c)
    /\ UNCHANGED <<finalized, http>>

AwaitedSleep ==
    /\ \E c \in active : SleepReturns(c)
    /\ UNCHANGED <<finalized, http>>

AwaitedConnect ==
    /\ \E c \in active : ConnectReturns(c)
    /\ UNCHANGED <<finalized, http>>

AwaitedLaunch ==
    /\ \E c \in active : LaunchReturns(c)
    /\ UNCHANGED <<finalized, http>>

CallClose ==
    /\ Referenced
    /\ \E c \in active : Close(c)
    /\ UNCHANGED <<finalized, http>>

AwaitedClose ==
    /\ \E c \in active : CloseReturns(c)
    /\ UNCHANGED <<finalized, http>>

AwaitedStop ==
    /\ \E c \in active : StopReturns(c)
    /\ UNCHANGED <<finalized, http>>

\* The manager is discarded, with or without a running event loop.
Discard ==
    /\ \E loopRunning \in BOOLEAN : Del(loopRunning)
    /\ UNCHANGED http

\* The loop runs the task that __del__ created (line 368): close().
FinalizerClose ==
    /\ finalized.pending
    /\ finalized' = [finalized EXCEPT !.pending = FALSE]
    /\ Close(1)
    /\ UNCHANGED http

Next ==
    \/ Acquire
    \/ AwaitedStart
    \/ AwaitedCdp
    \/ AwaitedWss
    \/ AwaitedReuse
    \/ AwaitedSleep
    \/ AwaitedConnect
    \/ AwaitedLaunch
    \/ CallClose
    \/ AwaitedClose
    \/ AwaitedStop
    \/ Discard
    \/ FinalizerClose

Spec == Init /\ [][Next]_vars

\* One caller, no keep-alive, and every proxy configuration.
InitProxy ==
    /\ config \in {PostInit(r) :
                     r \in RawConfigs(OptStr, OptStr, BOOLEAN,
                                      {<<>>, <<"--extra">>}, {FALSE})}
    /\ active = {1}
    /\ Fresh
    /\ http = NoHttp

ProxySpec == InitProxy /\ [][Next]_vars

\* ------------------------------------------------------------------ http.py
\* An Optional value is a sequence: <<>> for None (or for a key that a JSON
\* document does not have), <<v>> for the value v.  bytes are written as the
\* text they decode to.
Absent == <<>>

Some(v) == <<v>>

\* The HTTPRequestData of the sessions (lines 11-20): a plain GET, and a POST
\* from an iframe that was redirected and redirects.
Requests ==
    {[method |-> "GET", url |-> "http://a/", headers |-> "none",
      post_data |-> Absent, redirected_from_url |-> Absent,
      redirected_to_url |-> Absent, is_iframe |-> FALSE],
     [method |-> "POST", url |-> "http://b/", headers |-> "html",
      post_data |-> Some("q=1"), redirected_from_url |-> Some("http://a/"),
      redirected_to_url |-> Some("http://c/"), is_iframe |-> TRUE]}

\* The HTTPResponseData of the sessions (lines 131-139).
Statuses == {200, 300, 399, 400}

Bodies == {Absent, Some(""), Some("hi")}

BodyErrors == {Absent, Some("err")}

Responses ==
    [url : {"http://a/"}, status : Statuses, headers : {"html"},
     is_iframe : {FALSE}, body : Bodies, body_error : BodyErrors]

\* HTTPMessage (lines 250-253): a request and, maybe, its response.
Messages == [request : Requests, response : {Absent} \cup {Some(r) : r \in Responses}]

\* The sequences over S of length n at most.
SeqUpTo(S, n) == UNION {[1 .. k -> S] : k \in 0 .. n}

\* HTTPRequest.to_json (lines 79-88).
RequestToJson(r) ==
    [method |-> r.method, url |-> r.url, headers |-> r.headers,
     post_data |-> r.post_data, redirected_from |-> r.redirected_from_url,
     redirected_to |-> r.redirected_to_url, is_iframe |-> r.is_iframe]

\* HTTPRequest.from_json (lines 90-101).
RequestFromJson(d) ==
    [method |-> d.method, url |-> d.url, headers |-> d.headers,
     post_data |-> d.post_data, redirected_from_url |-> d.redirected_from,
     redirected_to_url |-> d.redirected_to, is_iframe |-> d.is_iframe]

\* get_content_type and get_response_size (lines 169-189) of the two header
\* sets: none, and content-type text/html with content-length 2.
ContentType(h) == IF h = "html" THEN "text/html" ELSE ""

ContentLength(h) == IF h = "html" THEN 2 ELSE 0

\* str(b) of a bytes object b: its repr, not its text.
BytesStr(b) == "b'" \o b \o "'"

\* s.encode(): the bytes of the text s.
Encode(s) == s

\* `300 <= self.status < 400` (line 201).
IsRedirect_from301(status) == 301 <= status /\ status < 400

IsRedirect(status) == 300 <= status /\ status < 400

\* HTTPResponse.to_json (lines 191-207): body_error before body, an empty
\* body is not written, and neither is written for a redirect.
ResponseToJson(r) ==
    [url |-> r.url, status |-> r.status, headers |-> r.headers,
     content_type |-> ContentType(r.headers),
     content_length |-> ContentLength(r.headers), is_iframe |-> r.is_iframe,
     body_error |->
         IF ~IsRedirect(r.status) /\ r.body_error # Absent /\ r.body_error[1] # ""
         THEN r.body_error ELSE Absent,
     body |->
         IF /\ ~IsRedirect(r.status)
            /\ ~(r.body_error # Absent /\ r.body_error[1] # "")
            /\ r.body # Absent /\ r.body[1] # ""
         THEN Some(BytesStr(r.body[1])) ELSE Absent]

\* HTTPResponse.from_json (lines 209-219).
ResponseFromJson(d) ==
    [url |-> d.url, status |-> d.status, headers |-> d.headers,
     is_iframe |-> d.is_iframe,
     body |-> IF d.body # Absent THEN Some(Encode(d.body[1])) ELSE Absent,
     body_error |-> d.body_error]

\* HTTPResponse.from_pw (lines 221-229): neither body nor body_error.
ResponseFromPw(status) ==
    [url |-> "http://a/", status |-> status, headers |-> "html",
     is_iframe |-> FALSE, body |-> Absent, body_error |-> Absent]

\* HTTPMessage.to_json (lines 262-268).
KeepsResponse_never(response) == FALSE

KeepsResponse(response) == response # Absent

MessageToJson(m) ==
    [request |-> RequestToJson(m.request),
     response |-> IF KeepsResponse(m.response)
                  THEN Some(ResponseToJson(m.response[1])) ELSE Absent]

\* HTTPMessage.from_json (lines 270-274).
MessageFromJson(d) ==
    [request |-> RequestFromJson(d.request),
     response |-> IF d.response # Absent
                  THEN Some(ResponseFromJson(d.response[1])) ELSE Absent]

\* HTTPMessageSession.to_json (lines 282-286).
SessionToJson(ses) ==
    [name |-> ses.name,
     messages |-> [i \in DOMAIN ses.messages |-> MessageToJson(ses.messages[i])]]

\* HTTPMessageSession.from_json (lines 288-291).
SessionFromJson(d) ==
    [name |-> d.name,
     messages |-> [i \in DOMAIN d.messages |-> MessageFromJson(d.messages[i])]]

\* The response documents a file can hold: any status, with or without a
\* body key and a body_error key.
ResponseDocs ==
    [url : {"http://a/"}, status : {200, 301}, headers : {"html"},
     content_type : {"text/html"}, content_length : {2}, is_iframe : {FALSE},
     body : {Absent, Some("hi")}, body_error : {Absent, Some("err")}]

\* A session is at hand: one that the caller built, with a name.
InitHttp ==
    /\ config = PostInit(CHOOSE r \in RawConfigs({"None"}, {"None"}, {FALSE},
                                                 {<<>>}, {FALSE}) : TRUE)
    /\ active = {1}
    /\ Fresh
    /\ \E ms \in SeqUpTo(Messages, MaxMessages) :
           http = [stage |-> "built", session |-> [name |-> "s", messages |-> ms],
                   doc |-> <<>>, restored |-> <<>>]

\* A response is captured from Playwright (from_pw, lines 103-114 and
\* 221-229) and appended to the session as a message.
FromPw ==
    /\ http.stage = "built"
    /\ Len(http.session.messages) < MaxMessages
    /\ \E q \in Requests, st \in Statuses :
           http' = [http EXCEPT !.session.messages =
                        Append(@, [request |-> q,
                                   response |-> Some(ResponseFromPw(st))])]
    /\ UNCHANGED browser

\* to_json_file (lines 293-296): the session is written as a document.
ToJson ==
    /\ http.stage = "built"
    /\ http' = [http EXCEPT !.stage = "written", !.doc = SessionToJson(http.session)]
    /\ UNCHANGED browser

\* A document that this program did not write is in the file.
ForeignJson ==
    /\ http.stage = "built"
    /\ \E q \in Requests, d \in ResponseDocs :
           http' = [http EXCEPT
                        !.stage = "foreign",
                        !.session = <<>>,
                        !.doc = [name |-> "s",
                                 messages |-> <<[request |-> RequestToJson(q),
                                                 response |-> Some(d)]>>]]
    /\ UNCHANGED browser

\* from_json_file (lines 298-301): the document is read back as a session.
FromJson ==
    /\ http.stage \in {"written", "foreign"}
    /\ http' = [http EXCEPT
                    !.stage = IF @ = "written" THEN "restored" ELSE "read",
                    !.restored = SessionFromJson(http.doc)]
    /\ UNCHANGED browser

HttpNext ==
    \/ FromPw
    \/ ToJson
    \/ ForeignJson
    \/ FromJson

HttpSpec == InitHttp /\ [][HttpNext]_vars

\* ----------------------------------------------------------------- claims
KeepAlive == config._force_keep_browser_alive

\* One task calls the manager: its operations follow one another.
SingleCaller == active = {1}

\* The selector is set.
IsSet(s) == s # "None"

\* The handles handed out on which close() has not been invoked.
LiveHandles == (1 .. nHandles) \ closedH

\* C1: for a single caller, a get_playwright_browser() that follows one that
\* returned a handle, with no close() between them, returns that same handle
\* and starts no driver and invokes no strategy; the first of the two, called
\* with no handle held, started the driver once and invoked one strategy: once
\* in total.
C1_SecondAcquireReusesHandle ==
    /\ (/\ SingleCaller
        /\ ret.op = "acquire"
        /\ ret.before.op = "acquire"
        /\ ret.before.res = "handle")
       => /\ ret.res = "handle"
          /\ ret.val = ret.before.val
          /\ ret.starts = 0
          /\ ret.strat = <<>>
    /\ (/\ SingleCaller
        /\ ret.op = "acquire"
        /\ ret.res = "handle"
        /\ ret.pre_browser = None)
       => /\ ret.starts = 1
          /\ Len(ret.strat) = 1

C1_Witness ==
    /\ SingleCaller
    /\ ret.op = "acquire"
    /\ ret.res = "handle"
    /\ ret.before.op = "acquire"
    /\ ret.before.res = "handle"
    /\ ret.before.val = ret.val

\* C2: concurrent callers never cause a second launch or connect: of the
\* acquisitions in flight at the same time at most one has invoked a strategy,
\* and as long as no close() has closed or stopped anything the engine has
\* handed out at most one handle, so every caller received the same one.
C2_NoDoubleLaunch ==
    /\ \A c, d \in active :
        (c # d /\ cur[c].op = "acquire" /\ cur[d].op = "acquire")
            => Len(cur[c].strat) + Len(cur[d].strat) <= 1
    /\ (~KeepAlive /\ closedH = {} /\ stoppedD = {}) => nHandles <= 1

\* C3: an acquisition invokes exactly one strategy, the first match in the
\* order CDP, WSS, local instance, standard launch; the await it suspends on is
\* that strategy's.
C3_OneStrategyByPrecedence ==
    \A c \in Callers :
        LET f == cur[c]
            cdp == IsSet(config.cdp_url)
            wss == IsSet(config.wss_url)
            inst == IsSet(config.chrome_instance_path)
        IN
        /\ Len(f.strat) <= 1
        /\ pc[c] \in {"cdp", "wss", "reuse", "sleep", "connect", "launch"}
            => Len(f.strat) = 1
        /\ Len(ret.strat) <= 1
        /\ (ret.op = "acquire" /\ ret.conn # "") => Len(ret.strat) = 1
        /\ \A s \in {f.strat[i] : i \in 1 .. Len(f.strat)}
                 \cup {ret.strat[i] : i \in 1 .. Len(ret.strat)} :
            /\ s = "cdp" <=> cdp
            /\ s = "wss" <=> (~cdp /\ wss)
            /\ s = "instance" <=> (~cdp /\ ~wss /\ inst)
            /\ s = "standard" <=> (~cdp /\ ~wss /\ ~inst)
        /\ pc[c] = "cdp" => f.strat = <<"cdp">>
        /\ pc[c] = "wss" => f.strat = <<"wss">>
        /\ pc[c] \in {"reuse", "sleep", "connect"} => f.strat = <<"instance">>
        /\ pc[c] = "launch" => f.strat = <<"standard">>

C3_Witness ==
    /\ IsSet(config.cdp_url)
    /\ IsSet(config.wss_url)
    /\ ret.op = "acquire"
    /\ ret.res = "handle"
    /\ ret.strat = <<"cdp">>

\* C4: without keep-alive every close() returns normally and leaves both
\* fields None, whatever it found and whatever the handle's close() or the
\* driver's stop() did; a close() that follows a close() of the same task
\* makes no engine call.
C4_CloseAlwaysResets ==
    ~KeepAlive =>
        /\ ret.op = "close"
            => /\ ret.res = "ok"
               /\ playwright_browser = None
               /\ playwright = None
        /\ (/\ ret.op = "close"
            /\ ret.before.op = "close"
            /\ ret.before.task = ret.task)
            => /\ ret.closeCalls = 0
               /\ ret.stopCalls = 0

C4_Witness ==
    /\ ~KeepAlive
    /\ ret.op = "close"
    /\ ret.pre_browser > None
    /\ ret.closeFailed
    /\ ret.res = "ok"

\* C5: close() with keep-alive leaves the handle and the driver reference as
\* they were, so that a single caller never obtains a second handle.
C5_KeepAliveKeepsHandle ==
    /\ (KeepAlive /\ ret.op = "close")
        => /\ playwright_browser = ret.pre_browser
           /\ playwright = ret.pre_playwright
    /\ (KeepAlive /\ SingleCaller) => nHandles <= 1

\* C6: with keep-alive close() makes no engine call: no handle's close() and
\* no driver's stop() is ever invoked, and close() never suspends on one.
C6_KeepAliveNoEngineCall ==
    KeepAlive =>
        /\ closedH = {}
        /\ stoppedD = {}
        /\ \A c \in Callers : pc[c] \notin {"closing", "stopping"}
        /\ ret.op = "close" => (ret.closeCalls = 0 /\ ret.stopCalls = 0)

C6_Witness ==
    /\ KeepAlive
    /\ ret.op = "close"
    /\ ret.pre_browser > None
    /\ ret.pre_playwright > None

\* A step in which get_playwright_browser raises.
AcquireFails == ret'.op = "acquire" /\ ret'.res = "error"

\* C7: an acquisition whose strategy fails has invoked that one strategy only,
\* raises the strategy's error, and stores neither handle nor driver: the step
\* that raises leaves both fields as they were, absent for a single caller,
\* whose next get_playwright_browser() starts a fresh acquisition.
C7_FailureStoresNothing ==
    /\ [](/\ (ret.op = "acquire" /\ ret.res = "error" /\ ret.strat # <<>>)
             => /\ ret.strat = <<SelectStrategy(config)>>
                /\ ret.err \in {"PlaywrightError", "RuntimeError", "Timeout"}
                /\ ret.val = None
                /\ SingleCaller
                    => (playwright_browser = None /\ playwright = None)
          /\ (/\ SingleCaller
              /\ ret.op = "acquire"
              /\ ret.before.op = "acquire"
              /\ ret.before.res = "error")
             => /\ ret.starts = 1
                /\ ret.pre_browser = None)
    /\ [][AcquireFails => UNCHANGED <<playwright_browser, playwright>>]_vars

C7_Witness ==
    /\ SingleCaller
    /\ ret.op = "acquire"
    /\ ret.res = "error"
    /\ ret.strat # <<>>
    /\ ret.before.op = "acquire"
    /\ ret.before.res = "error"

\* C8: at most one handle obtained through the manager is live.
C8_AtMostOneLiveHandle == Cardinality(LiveHandles) <= 1

\* The frames of the operations in flight and of the one that just returned.
Frames == {cur[c] : c \in Callers} \cup {ret}

\* C9: when the first probe answers 200 nothing is spawned, nothing is polled
\* and one connect_over_cdp is called; its handle or its error is what the
\* acquisition returns or raises.
C9_ReuseConnectsOnce ==
    /\ \A f \in Frames :
        f.probe0 = "200"
            => /\ f.spawns = 0
               /\ f.polls = 0
               /\ f.connects = 1
    /\ \A c \in Callers : cur[c].probe0 = "200" => pc[c] = "reuse"
    /\ ret.probe0 = "200"
        => \/ ret.res = "handle" /\ ret.conn = "ok" /\ ret.val = playwright_browser
           \/ ret.res = "error" /\ ret.conn = "fail" /\ ret.err = "PlaywrightError"

C9_Witness ==
    /\ ret.probe0 = "200"
    /\ ret.res = "error"
    /\ ret.connects = 1

\* What is left of task c's acquisition, counted in awaits.
Rank(c) ==
    IF pc[c] = "start" THEN 13
    ELSE IF pc[c] = "sleep" THEN 12 - cur[c].polls
    ELSE IF pc[c] \in {"cdp", "wss", "reuse", "connect", "launch"} THEN 1
    ELSE 0

ProxyFlags ==
    {"--proxy-server", "--proxy-bypass-list", "--ignore-certificate-errors",
     "--ca-certificates-path"}

\* The elements of a sequence.
Range(q) == {q[i] : i \in DOMAIN q}

\* C11: every connect or launch call of an acquisition carries the proxy
\* descriptor when a proxy server is configured, and no proxy parameter when
\* none is.
C11_ProxyOnEveryCall ==
    \A f \in Frames :
        f.call.kind # "none" =>
            /\ f.call.hasProxy <=> Truthy(config.proxy_server)
            /\ f.call.hasProxy => f.call.proxy = config.proxy

\* C12: without a proxy server, no spawn command and no launch argument list
\* holds a flag that comes from a proxy field, and with no user data directory
\* either the spawn command is the path, the debugging port and the caller's
\* extra arguments.
C12_NoProxyFlagsWithoutServer ==
    ~Truthy(config.proxy_server) =>
        \A f \in Frames :
            /\ Range(f.cmd) \cap ProxyFlags = {}
            /\ Range(f.args) \cap ProxyFlags = {}
            /\ (f.cmd # <<>> /\ ~Truthy(config.user_data_dir)) =>
                   f.cmd = <<"chrome_instance_path", "--remote-debugging-port=9222">>
                           \o config.extra_chromium_args

\* C13: no configuration object has exactly one of username and password
\* set: its construction fails instead.
C13_NoPartialCredentials ==
    Truthy(config.proxy_username) <=> Truthy(config.proxy_password)

\* C18: a manager discarded while it holds a handle or a driver has started
\* close() exactly once, with or without a running event loop.
C18_FinalizerStartsCloseOnce ==
    (finalized.discarded /\ finalized.held) => finalized.started = 1

\* The session of http.py has been written and read back.
Restored == http.stage = "restored"

\* The responses of a session, or of a document.
ResponsesOf(ses) ==
    {ses.messages[i].response[1] :
        i \in {j \in DOMAIN ses.messages : ses.messages[j].response # Absent}}

\* C14: a session whose responses all have a status outside [300, 400), once
\* written and read back, equals the original: name, messages in order,
\* requests and responses field by field, body included.
C14_RoundTrip ==
    (/\ Restored
     /\ \A r \in ResponsesOf(http.session) : r.status < 300 \/ r.status >= 400)
        => http.restored = http.session

\* C15: the document of a response with a status in [300, 400) has neither a
\* body nor a body_error key, whatever the response holds, and the response
\* read back from it has neither a body nor a body error.
C15_RedirectOmitsBody ==
    http.stage \in {"written", "restored"} =>
        \A i \in DOMAIN http.session.messages :
            LET m == http.session.messages[i] IN
            (m.response # Absent /\ m.response[1].status >= 300
                                 /\ m.response[1].status < 400) =>
                /\ http.doc.messages[i].response # Absent
                /\ http.doc.messages[i].response[1].body = Absent
                /\ http.doc.messages[i].response[1].body_error = Absent
                /\ Restored =>
                       /\ http.restored.messages[i].response # Absent
                       /\ http.restored.messages[i].response[1].body = Absent
                       /\ http.restored.messages[i].response[1].body_error = Absent

\* A redirect that holds a body, next to one that holds a body error, was
\* written and read back.
C15_Witness ==
    /\ Restored
    /\ Len(http.session.messages) = 2
    /\ \A i \in 1 .. 2 : http.session.messages[i].response # Absent
    /\ http.session.messages[1].response[1].status = 300
    /\ http.session.messages[1].response[1].body = Some("hi")
    /\ http.session.messages[2].response[1].status = 399
    /\ http.session.messages[2].response[1].body_error = Some("err")

\* C16: the session read back has the messages of the original, as many and
\* in the same order: each request with its method, url, headers, post data,
\* redirect URLs and iframe flag, and a response exactly where the original
\* has one.
C16_MessagesPreserved ==
    Restored =>
        /\ Len(http.restored.messages) = Len(http.session.messages)
        /\ \A i \in DOMAIN http.session.messages :
               /\ http.restored.messages[i].request = http.session.messages[i].request
               /\ http.restored.messages[i].response = Absent
                      <=> http.session.messages[i].response = Absent

\* Two different requests, the first without a response and the second with
\* one, were written and read back.
C16_Witness ==
    /\ Restored
    /\ Len(http.session.messages) = 2
    /\ http.session.messages[1].request.method = "POST"
    /\ http.session.messages[1].response = Absent
    /\ http.session.messages[2].request.method = "GET"
    /\ http.session.messages[2].response # Absent

\* C17: no response made by from_pw, and no response made by from_json from
\* any document, has both a body and a body error.
C17_BodyXorError ==
    /\ \A st \in Statuses :
           ResponseFromPw(st).body = Absent \/ ResponseFromPw(st).body_error = Absent
    /\ http.stage \in {"restored", "read"} =>
           \A r \in ResponsesOf(http.restored) :
               r.body = Absent \/ r.body_error = Absent

\* The first probe of the debug endpoint did not find a live instance: the
\* connection was refused, the answer did not come in time, or the status
\* was not 200.
NotLive(p) == p \in {"ConnectionError", "Timeout", "non200"}

\* C19: an instance strategy whose first probe does not find a live instance
\* does not fail there: it spawns one process and goes on to poll.
C19_NotLiveSpawnsOnce ==
    \A f \in Frames : NotLive(f.probe0) => (f.spawns = 1 /\ f.polls >= 1)

\* C20: after the spawn no poll follows a poll that answered 200, one
\* connect_over_cdp follows the polling whether or not the endpoint became
\* ready, and an acquisition that fails after the spawn raises RuntimeError
\* after that one connect, with one spawn and ten polls at most.
C20_OneConnectAfterPolling ==
    /\ \A c \in Callers :
           (cur[c].spawns = 1 /\ cur[c].ready) => pc[c] = "connect"
    /\ \A f \in Frames : f.spawns <= 1 /\ (f.spawns = 1 => f.connects <= 1)
    /\ (ret.op = "acquire" /\ ret.spawns = 1) =>
           /\ ret.connects = 1
           /\ ret.polls <= PollAttempts
           /\ ret.res = "error" => ret.err = "RuntimeError"

\* C21: get_playwright_browser() never returns a handle on which close() has
\* been invoked, whether that close() has finished or is still suspended.
C21_NoClosedHandleReturned ==
    (ret.op = "acquire" /\ ret.res = "handle") => ret.val \notin closedH

\* C22: whenever another task can run, the handle field holds None or a
\* handle, and no get_playwright_browser() fails on reading it.
C22_HandleFieldDefined ==
    /\ playwright_browser # Deleted
    /\ ret.op = "acquire" => ret.err # "AttributeError"

\* The drivers that an acquisition in progress holds in its local variable.
HeldLocally == {cur[c].lpw : c \in {t \in Callers : cur[t].op = "acquire"}}

\* C23: every driver that async_playwright().start() has started is the
\* manager's driver, is held by an acquisition in progress, or has had
\* stop() invoked on it.
C23_NoDriverLeak ==
    \A d \in 1 .. nDrivers :
        d = playwright \/ d \in HeldLocally \/ d \in stoppedD

====
